---- MODULE Spec2Model ----
(***************************************************************************)
(* The shutdown daemon (src/unnamed/part_002, the variant with run() and   *)
(* the retrying main()) against the remote "devices" table.                *)
(*                                                                         *)
(* One unit of model time is 5 seconds, the greatest common divisor of the *)
(* program's durations.  An HTTP request is one atomic step at the         *)
(* registry and takes no model time; requests of different goroutines      *)
(* interleave freely.  A sleeping goroutine wakes exactly when its sleep   *)
(* ends: the clock does not advance while a goroutine is runnable.         *)
(***************************************************************************)
EXTENDS Integers, Sequences, FiniteSets, TLC

\* ---- program constants, in units of 5 s --------------------------------
ShutdownDelay == 1
StatusUpdateInterval == 36
ShutdownPollInterval == 2
MinUptimeBeforeShutdown == 12
RetrySleep == 6

\* ---- bounds of the model ------------------------------------------------
MaxTime == 20
MaxRuns == 2
MaxEvents == 2
ScenarioTime == 52

\* ---- values -------------------------------------------------------------
\* A nullable timestamp column / JSON member: absent, unparseable, or a time.
NoTime == [k |-> "nil", t |-> 0]
BadTime == [k |-> "bad", t |-> 0]
At(t) == [k |-> "at", t |-> t]

\* shutdown_requested (jsonb): SQL NULL, a JSON value that is no object
\* ("bad": json.Unmarshal into map[string]interface{} fails), or an object
\* with a "status" member and an optional "expires_at" member.
NullReq == [status |-> "null", exp |-> NoTime]
BadReq == [status |-> "bad", exp |-> NoTime]
Req(s, e) == [status |-> s, exp |-> e]

\* A timestamp of the machine's previous boot, more than the uptime
\* threshold before this process started (time 0).
Old == 0 - (MinUptimeBeforeShutdown + 1)

Device(st, seen, foa, sr) ==
    [status |-> st, last_seen |-> seen, first_online_at |-> foa, shutdown_requested |-> sr]

\* Goroutines: main, the watcher started by the k-th run() (k), and the
\* status reporter (the reporter of an earlier run() has returned before
\* the next one starts, so one slot serves them all).
Main == 0
Watchers == 1..MaxRuns
Rep == MaxRuns + 1
Threads == 0..(MaxRuns + 1)

NoData == [none |-> TRUE]
NoCall == [dev |-> Device("unknown", NoTime, NoTime, NullReq), req |-> NullReq, at |-> 0 - 1]

VARIABLES
    now,        \* wall clock
    rows,       \* the devices table restricted to (user_id, name): a sequence of rows
    uniq,       \* whether the table has a unique constraint on (user_id, name):
                \* the README's schema declares none, src/app.go:191 presumes one
    goos,       \* runtime.GOOS: "linux" (a supported family) or "other"
    pc,         \* pc[t]: where goroutine t is
    wake,       \* wake[t]: when t's sleep ends
    data,       \* data[t]: the body of t's patchDevice call in progress
    nested,     \* nested[t]: t is in a recursive patchDevice call (result dropped)
    hs,         \* hs[w]: the arguments of w's latest handleShutdown call
    log,        \* log[w]: what watcher w's latest poll found
    errChan,    \* run()'s error channel
    runs,       \* how many times main() has called run()
    lastErr,    \* what run() last returned
    poweroffs,  \* power-off commands invoked since the operator's last write
    events,     \* how many more times the environment may act: a failed
                \* request, an operator's write, a deletion of the row
    faulty      \* whether requests may fail

vars == <<now, rows, uniq, goos, pc, wake, data, nested, hs, log, errChan, runs,
          lastErr, poweroffs, events, faulty>>


\* ---- the registry ------------------------------------------------------
\* PATCH ...?user_id=eq.U&name=eq.N: the body's members replace the columns
\* of every matching row.
PatchRow(r, body) ==
    [f \in DOMAIN r |-> IF f \in DOMAIN body THEN body[f] ELSE r[f]]

PatchRows(rs, body) == [i \in 1..Len(rs) |-> PatchRow(rs[i], body)]

\* createDevice's payload.
NewDevice == Device("unknown", At(now), At(now), NullReq)

\* The bodies the agent PATCHes.
\* The reporter's body, were it to clear the request as well.
StatusBody_ClearsRequest ==
    [status |-> "on", last_seen |-> At(now), first_online_at |-> At(now),
     shutdown_requested |-> NullReq]
StatusBody == [status |-> "on", last_seen |-> At(now), first_online_at |-> At(now)]
\* The expiry PATCH, were it to mark the device off as the commit does.
ExpiredBody_MarksOff ==
    [shutdown_requested |-> Req("expired", NoTime), status |-> "off"]
ExpiredBody == [shutdown_requested |-> Req("expired", NoTime)]
CommitBody ==
    [shutdown_requested |-> Req("shutting_down", NoTime), status |-> "off", last_seen |-> At(now)]
FailedBody == [shutdown_requested |-> Req("failed", NoTime)]
\* The final PATCH without the status column (as src/app.go:257 writes it).
DoneBody_RequestOnly == [shutdown_requested |-> Req("done", NoTime)]
DoneBody == [shutdown_requested |-> Req("done", NoTime), status |-> "off"]

\* An error a request can end with: a network error or 5xx, or a 4xx.
Errors == {"transient", "fatal"}

\* What run() can return before createDevice: the settings are missing,
\* signIn got a status other than 200, or signIn's request failed.
StartErrors == {"config", "auth", "transient"}

\* ---- initial state -----------------------------------------------------
\* The table holds no row for this host, or the row of an earlier boot.
InitRows ==
    {<<>>}
    \cup {<<Device("off", At(Old), foa, sr)>> :
            foa \in {At(Old)}, sr \in {NullReq, Req("pending", NoTime)}}

Starts(tables, systems, n, f) ==
    /\ now = 0
    /\ rows \in tables
    /\ uniq \in BOOLEAN
    /\ goos \in systems
    /\ pc = [t \in Threads |-> IF t = Main THEN "m_start" ELSE "dead"]
    /\ wake = [t \in Threads |-> 0]
    /\ data = [t \in Threads |-> NoData]
    /\ nested = [t \in Threads |-> FALSE]
    /\ hs = [w \in Watchers |-> NoCall]
    /\ log = [w \in Watchers |-> "none"]
    /\ errChan = <<>>
    /\ runs = 1
    /\ lastErr = "none"
    /\ poweroffs = 0
    /\ events = n
    /\ faulty = f

Init == Starts(InitRows, {"linux", "other"}, MaxEvents, TRUE)

\* ---- returns ------------------------------------------------------------
\* What a PATCH body writes to shutdown_requested ("on" for the reporter's).
Kind(body) ==
    IF "shutdown_requested" \in DOMAIN body THEN body.shutdown_requested.status
    ELSE IF "status" \in DOMAIN body THEN "on" ELSE "none"

\* listenForShutdownRequests returning the error of a failed fetch or of a
\* failed createDevice to run() where it sleeps and polls again.
WatcherSleeps_Returns(w, found) ==
    /\ pc' = [pc EXCEPT ![w] =
                IF found \in {"fetch_err", "create_failed"} THEN "dead" ELSE "w_poll"]
    /\ wake' = [wake EXCEPT ![w] = now + ShutdownPollInterval]
    /\ data' = [data EXCEPT ![w] = NoData]
    /\ nested' = [nested EXCEPT ![w] = FALSE]
    /\ log' = [log EXCEPT ![w] = found]
    /\ errChan' = IF found \in {"fetch_err", "create_failed"}
                  THEN Append(errChan, "fatal") ELSE errChan
    /\ UNCHANGED lastErr

\* Watcher w's loop sleeps one poll interval and polls again.
WatcherSleeps(w, found) ==
    /\ pc' = [pc EXCEPT ![w] = "w_poll"]
    /\ wake' = [wake EXCEPT ![w] = now + ShutdownPollInterval]
    /\ data' = [data EXCEPT ![w] = NoData]
    /\ nested' = [nested EXCEPT ![w] = FALSE]
    /\ log' = [log EXCEPT ![w] = found]
    /\ UNCHANGED <<errChan, lastErr>>

\* main() ending the process on run()'s error (as src/app.go does with
\* log.Fatal) where it sleeps and retries.
RunReturns_Exits(e) ==
    /\ pc' = [pc EXCEPT ![Main] = "dead"]
    /\ lastErr' = e
    /\ UNCHANGED <<wake, data, nested, log, errChan>>

\* run() returns error e to main(), which logs it and sleeps 30 s.
RunReturns(e) ==
    /\ pc' = [pc EXCEPT ![Main] = "m_sleep"]
    /\ wake' = [wake EXCEPT ![Main] = now + RetrySleep]
    /\ lastErr' = e
    /\ UNCHANGED <<data, nested, log, errChan>>

\* run() after createDevice: a fresh channel and the two goroutines.
RunSpawns ==
    /\ pc' = [pc EXCEPT ![Main] = "m_wait", ![Rep] = "r_tick", ![runs] = "w_poll"]
    /\ wake' = [wake EXCEPT ![Rep] = now, ![runs] = now]
    /\ errChan' = <<>>
    /\ UNCHANGED <<data, nested, log, lastErr>>

\* The outermost patchDevice call of goroutine t returns e ("ok" for nil).
PatchReturns(t, e) ==
    IF t = Rep
    THEN IF e = "ok"
         THEN \* <-ticker.C
              /\ pc' = [pc EXCEPT ![t] = "r_tick"]
              /\ wake' = [wake EXCEPT ![t] = now + StatusUpdateInterval]
              /\ data' = [data EXCEPT ![t] = NoData]
              /\ nested' = [nested EXCEPT ![t] = FALSE]
              /\ UNCHANGED <<log, errChan, lastErr>>
         ELSE \* updateDeviceStatus returns; its goroutine sends on errChan
              /\ pc' = [pc EXCEPT ![t] = "dead"]
              /\ errChan' = Append(errChan, e)
              /\ data' = [data EXCEPT ![t] = NoData]
              /\ nested' = [nested EXCEPT ![t] = FALSE]
              /\ UNCHANGED <<wake, log, lastErr>>
    ELSE \* handleShutdown drops patchDevice's result
         IF Kind(data[t]) = "shutting_down"
         THEN \* time.Sleep(ShutdownDelay)
              /\ pc' = [pc EXCEPT ![t] = "w_exec"]
              /\ wake' = [wake EXCEPT ![t] = now + ShutdownDelay]
              /\ data' = [data EXCEPT ![t] = NoData]
              /\ nested' = [nested EXCEPT ![t] = FALSE]
              /\ UNCHANGED <<log, errChan, lastErr>>
         ELSE WatcherSleeps(t, log[t])

\* The result of a patchDevice call that ended with e: its caller, when it
\* is patchDevice itself, drops it and returns nil.
Outer(t, e) == IF nested[t] THEN "ok" ELSE e

\* createDevice returns e to its caller: run(), listenForShutdownRequests
\* or patchDevice.
CreateReturns(t, e) ==
    IF t = Main
    THEN IF e = "ok" THEN RunSpawns ELSE RunReturns(e)
    ELSE IF data[t] = NoData
    THEN WatcherSleeps(t, IF e = "ok" THEN "created" ELSE "create_failed")
    ELSE IF e = "ok"
    THEN \* "now you know a row exists, so just patch": the recursive call
         /\ pc' = [pc EXCEPT ![t] = "p_patch"]
         /\ nested' = [nested EXCEPT ![t] = TRUE]
         /\ UNCHANGED <<wake, data, log, errChan, lastErr>>
    ELSE PatchReturns(t, Outer(t, e))

\* A request fails: one of the events the environment may cause.
Fails(e) ==
    faulty /\ events > 0 /\ e \in Errors \cup StartErrors /\ events' = events - 1

\* ---- createDevice -------------------------------------------------------
\* fetchDevices, then return nil when a row exists.
CD_Fetch(t) ==
    /\ pc[t] = "cd_fetch"
    /\ \/ \E e \in Errors : Fails(e) /\ CreateReturns(t, e)
       \/ rows # <<>> /\ CreateReturns(t, "ok") /\ UNCHANGED events
       \/ /\ rows = <<>>
          /\ pc' = [pc EXCEPT ![t] = "cd_post"]
          /\ UNCHANGED <<wake, data, nested, log, errChan, lastErr, events>>
    /\ UNCHANGED <<now, rows, uniq, goos, hs, runs, poweroffs, faulty>>

\* The POST with the preference to merge duplicates (as src/app.go:191 asks
\* for): the payload replaces the columns of the row that exists.
CD_Post_Merge(t) ==
    /\ pc[t] = "cd_post"
    /\ \/ \E e \in Errors : Fails(e) /\ CreateReturns(t, e) /\ UNCHANGED rows
       \/ /\ rows' = IF rows = <<>> THEN <<NewDevice>>
                    ELSE [i \in 1..Len(rows) |-> NewDevice]
          /\ CreateReturns(t, "ok")
          /\ UNCHANGED events
    /\ UNCHANGED <<now, uniq, goos, hs, runs, poweroffs, faulty>>

\* POST /rest/v1/devices; a status >= 300 is an error, and so is the 409
\* ("conflict") that a duplicate key gets.
CD_Post(t) ==
    /\ pc[t] = "cd_post"
    /\ \/ \E e \in Errors : Fails(e) /\ CreateReturns(t, e) /\ UNCHANGED rows
       \/ uniq /\ rows # <<>> /\ CreateReturns(t, "conflict") /\ UNCHANGED <<rows, events>>
       \/ /\ ~uniq \/ rows = <<>>
          /\ rows' = Append(rows, NewDevice)
          /\ CreateReturns(t, "ok")
          /\ UNCHANGED events
    /\ UNCHANGED <<now, uniq, goos, hs, runs, poweroffs, faulty>>

\* ---- patchDevice --------------------------------------------------------
\* The PATCH request: an error returns; 404 goes on to the re-create path.
P_Patch(t) ==
    /\ pc[t] = "p_patch"
    /\ \/ \E e \in Errors : Fails(e) /\ PatchReturns(t, Outer(t, e)) /\ UNCHANGED rows
       \/ /\ rows = <<>>
          /\ pc' = [pc EXCEPT ![t] = "p_fetch"]
          /\ UNCHANGED <<rows, wake, data, nested, log, errChan, lastErr, events>>
       \/ /\ rows # <<>>
          /\ rows' = PatchRows(rows, data[t])
          /\ PatchReturns(t, "ok")
          /\ UNCHANGED events
    /\ UNCHANGED <<now, uniq, goos, hs, runs, poweroffs, faulty>>

\* After 404: devices, _ := fetchDevices(...); createDevice when none came
\* back, else the recursive patchDevice.
P_Fetch(t) ==
    /\ pc[t] = "p_fetch"
    /\ \/ /\ \E e \in Errors : Fails(e)
          /\ pc' = [pc EXCEPT ![t] = "cd_fetch"]
          /\ UNCHANGED nested
       \/ /\ rows = <<>>
          /\ pc' = [pc EXCEPT ![t] = "cd_fetch"]
          /\ UNCHANGED <<nested, events>>
       \/ /\ rows # <<>>
          /\ pc' = [pc EXCEPT ![t] = "p_patch"]
          /\ nested' = [nested EXCEPT ![t] = TRUE]
          /\ UNCHANGED events
    /\ UNCHANGED <<now, rows, uniq, goos, wake, data, hs, log, errChan, runs, lastErr,
                   poweroffs, faulty>>

\* ---- main and run -------------------------------------------------------
\* run() up to createDevice: the configuration is read and signIn succeeds,
\* or run() returns an error.
M_Start ==
    /\ pc[Main] = "m_start"
    /\ \/ /\ pc' = [pc EXCEPT ![Main] = "cd_fetch"]
          /\ UNCHANGED <<wake, data, nested, log, errChan, lastErr, events>>
       \/ \E e \in StartErrors : Fails(e) /\ RunReturns(e)
    /\ UNCHANGED <<now, rows, uniq, goos, hs, runs, poweroffs, faulty>>

\* return <-errChan
M_Recv ==
    /\ pc[Main] = "m_wait"
    /\ errChan # <<>>
    /\ RunReturns(Head(errChan))
    /\ UNCHANGED <<now, rows, uniq, goos, hs, runs, poweroffs, events, faulty>>

\* main()'s loop calls run() again after its 30 s.
M_Retry ==
    /\ pc[Main] = "m_sleep"
    /\ wake[Main] <= now
    /\ runs < MaxRuns
    /\ runs' = runs + 1
    /\ pc' = [pc EXCEPT ![Main] = "m_start"]
    /\ UNCHANGED <<now, rows, uniq, goos, wake, data, nested, hs, log, errChan, lastErr,
                   poweroffs, events, faulty>>

\* ---- updateDeviceStatus -------------------------------------------------
R_Tick ==
    /\ pc[Rep] = "r_tick"
    /\ wake[Rep] <= now
    /\ pc' = [pc EXCEPT ![Rep] = "p_patch"]
    /\ data' = [data EXCEPT ![Rep] = StatusBody]
    /\ UNCHANGED <<now, rows, uniq, goos, wake, nested, hs, log, errChan, runs, lastErr,
                   poweroffs, events, faulty>>

\* ---- listenForShutdownRequests and handleShutdown -----------------------
\* The expiry test with Before for After.
Expired_Before(req, t) == req.exp.k = "at" /\ t < req.exp.t

\* time.Now().UTC().After(expiresAt), for an expires_at that is an RFC 3339 string.
Expired(req, t) == req.exp.k = "at" /\ t > req.exp.t

\* The uptime guard with the comparison turned around.
TooSoon_Reversed(dev, t) ==
    /\ dev.first_online_at.k = "at"
    /\ t - dev.first_online_at.t > MinUptimeBeforeShutdown

\* dev.FirstOnlineAt != nil && time.Since(*dev.FirstOnlineAt) < MinUptimeBeforeShutdown
TooSoon(dev, t) ==
    /\ dev.first_online_at.k = "at"
    /\ t - dev.first_online_at.t < MinUptimeBeforeShutdown

\* The parse with json.Unmarshal's error dropped and the request handled.
Parse_ErrorDropped(sr) ==
    IF sr.status \in {"bad", "pending"} THEN "pending" ELSE "idle"

\* json.Unmarshal of the column into a map, then req["status"] == "pending".
Parse(sr) ==
    IF sr.status = "bad" THEN "bad"
    ELSE IF sr.status = "pending" THEN "pending" ELSE "idle"

\* Goroutine t calls patchDevice with this body.
CallPatch(t, body, found) ==
    /\ pc' = [pc EXCEPT ![t] = "p_patch"]
    /\ data' = [data EXCEPT ![t] = body]
    /\ log' = [log EXCEPT ![t] = found]
    /\ UNCHANGED <<wake, nested, errChan, lastErr>>

\* handleShutdown up to its first request.
HandleShutdown(w, dev, req) ==
    /\ hs' = [hs EXCEPT ![w] = [dev |-> dev, req |-> req, at |-> now]]
    /\ IF req.exp.k = "bad" THEN WatcherSleeps(w, "bad_expiry")
       ELSE IF Expired(req, now) THEN CallPatch(w, ExpiredBody, "expired")
       ELSE IF TooSoon(dev, now) THEN WatcherSleeps(w, "too_soon")
       ELSE CallPatch(w, CommitBody, "shutdown")

\* One poll: fetchDevices and what the loop body does with devices[0].
W_Poll(w) ==
    /\ pc[w] = "w_poll"
    /\ wake[w] <= now
    /\ \/ /\ \E e \in Errors : Fails(e)
          /\ WatcherSleeps(w, "fetch_err")
          /\ hs' = [hs EXCEPT ![w] = NoCall]
       \/ /\ rows = <<>>
          /\ pc' = [pc EXCEPT ![w] = "cd_fetch"]
          /\ log' = [log EXCEPT ![w] = "no_row"]
          /\ hs' = [hs EXCEPT ![w] = NoCall]
          /\ UNCHANGED <<wake, data, nested, errChan, lastErr, events>>
       \/ /\ \E i \in 1..Len(rows) :
                LET dev == rows[i]
                    found == Parse(dev.shutdown_requested)
                IN  IF found = "pending"
                    THEN HandleShutdown(w, dev, dev.shutdown_requested)
                    ELSE /\ WatcherSleeps(w, found)
                         /\ hs' = [hs EXCEPT ![w] = NoCall]
          /\ UNCHANGED events
    /\ UNCHANGED <<now, rows, uniq, goos, runs, poweroffs, faulty>>

\* The switch on runtime.GOOS without its default case: the command is run
\* on every OS.
W_Exec_NoDefault(w) ==
    /\ pc[w] = "w_exec"
    /\ wake[w] <= now
    /\ poweroffs' = poweroffs + 1
    /\ \/ CallPatch(w, FailedBody, "cmd_failed")
       \/ CallPatch(w, DoneBody, "cmd_ok")
    /\ UNCHANGED <<now, rows, uniq, goos, hs, runs, events, faulty>>

\* After the grace delay: the power-off command of this OS and its outcome.
W_Exec(w) ==
    /\ pc[w] = "w_exec"
    /\ wake[w] <= now
    /\ \/ goos = "other" /\ WatcherSleeps(w, "unsupported") /\ UNCHANGED poweroffs
       \/ /\ goos = "linux"
          /\ poweroffs' = poweroffs + 1
          /\ \/ CallPatch(w, FailedBody, "cmd_failed")
             \/ CallPatch(w, DoneBody, "cmd_ok")
    /\ UNCHANGED <<now, rows, uniq, goos, hs, runs, events, faulty>>

\* ---- the environment ----------------------------------------------------
\* What an operator writes to shutdown_requested.
OperatorRequests ==
    {NullReq, BadReq}
    \cup {Req("pending", e) :
            e \in {NoTime, BadTime, At(now - 1), At(now + 2 * ShutdownPollInterval)}}

OpWrites(values) ==
    /\ events > 0
    /\ rows # <<>>
    /\ \E v \in values : rows' = PatchRows(rows, [shutdown_requested |-> v])
    /\ events' = events - 1
    /\ poweroffs' = 0
    /\ UNCHANGED <<now, uniq, goos, pc, wake, data, nested, hs, log, errChan, runs,
                   lastErr, faulty>>

OpWrite == OpWrites(OperatorRequests)

\* The row is deleted from outside.
ExtDelete ==
    /\ events > 0
    /\ rows # <<>>
    /\ rows' = <<>>
    /\ events' = events - 1
    /\ UNCHANGED <<now, uniq, goos, pc, wake, data, nested, hs, log, errChan, runs,
                   lastErr, poweroffs, faulty>>

\* ---- time ---------------------------------------------------------------
Runnable(t) ==
    CASE pc[t] = "dead" -> FALSE
      [] pc[t] = "m_wait" -> errChan # <<>>
      [] pc[t] = "m_sleep" -> wake[t] <= now /\ runs < MaxRuns
      [] pc[t] \in {"r_tick", "w_poll", "w_exec"} -> wake[t] <= now
      [] OTHER -> TRUE

TickTo(horizon) ==
    /\ now < horizon
    /\ \A t \in Threads : ~Runnable(t)
    /\ now' = now + 1
    /\ UNCHANGED <<rows, uniq, goos, pc, wake, data, nested, hs, log, errChan, runs,
                   lastErr, poweroffs, events, faulty>>

Tick == TickTo(MaxTime)

Next ==
    \/ M_Start
    \/ M_Recv
    \/ M_Retry
    \/ R_Tick
    \/ \E t \in Threads : CD_Fetch(t)
    \/ \E t \in Threads : CD_Post(t)
    \/ \E t \in Threads : P_Patch(t)
    \/ \E t \in Threads : P_Fetch(t)
    \/ \E w \in Watchers : W_Poll(w)
    \/ \E w \in Watchers : W_Exec(w)
    \/ OpWrite
    \/ ExtDelete
    \/ Tick

Spec == Init /\ [][Next]_vars

\* ---- the scenario of a fresh owner and a healthy registry ---------------
\* No row exists; no request fails and nothing is deleted; the operator
\* writes {"status": "pending"} once, at any time; the host is supported.
InitFresh == Starts({<<>>}, {"linux"}, 1, FALSE)

OpPending == OpWrites({Req("pending", NoTime)})

TickFresh == TickTo(ScenarioTime)

\* The goroutines and the clock.
AgentFresh ==
    \/ M_Start
    \/ R_Tick
    \/ \E t \in Threads : CD_Fetch(t)
    \/ \E t \in Threads : CD_Post(t)
    \/ \E t \in Threads : P_Patch(t)
    \/ \E w \in Watchers : W_Poll(w)
    \/ \E w \in Watchers : W_Exec(w)
    \/ TickFresh

NextFresh == AgentFresh \/ OpPending

\* A runnable goroutine runs, and time passes when none is runnable.
SpecFresh == InitFresh /\ [][NextFresh]_vars /\ WF_vars(AgentFresh)

\* ---- properties ---------------------------------------------------------
\* Watcher w is inside handleShutdown.
InHandle(w) == pc[w] = "w_exec" \/ data[w] # NoData

\* Goroutine t takes a step.
Steps(t) == pc'[t] # pc[t] \/ wake'[t] # wake[t]

\* Watcher w's PATCH is applied to the table in this step.
Applies(w) ==
    /\ pc[w] = "p_patch"
    /\ pc'[w] # "p_patch"
    /\ rows # <<>>
    /\ events' = events

\* C1: the registry holds at most one record for (owner, name) in every
\* reachable state.
C1_AtMostOneRecord == Len(rows) <= 1

\* handleShutdown was called for a pending request whose expires_at had passed.
SawExpired(call) ==
    /\ call.at >= 0
    /\ call.req.status = "pending"
    /\ call.req.exp.k = "at"
    /\ call.req.exp.t < call.at

SawTooSoon(call) ==
    /\ call.at >= 0
    /\ call.req.status = "pending"
    /\ ~(call.req.exp.k = "at" /\ call.req.exp.t < call.at)
    /\ call.dev.first_online_at.k = "at"
    /\ call.at - call.dev.first_online_at.t < MinUptimeBeforeShutdown

\* C3: a poll that observes a pending, unexpired request within the uptime
\* window issues no PATCH and no power-off: the table is unchanged and the
\* watcher goes back to sleep for one poll interval.
C3_TooSoonSkips ==
    [][\A w \in Watchers :
          (hs'[w] # hs[w] /\ SawTooSoon(hs'[w]))
              => /\ rows' = rows
                 /\ poweroffs' = poweroffs
                 /\ data'[w] = NoData
                 /\ pc'[w] = "w_poll"
                 /\ wake'[w] = now + ShutdownPollInterval]_vars

C3_Witness ==
    \E w \in Watchers :
        /\ SawTooSoon(hs[w])
        /\ hs[w].req.exp.k = "nil"
        /\ hs[w].at > 0
        /\ pc[w] = "w_poll"
        /\ rows # <<>>
        /\ rows[1].shutdown_requested.status = "pending"

\* C4: once handleShutdown has committed shutting_down, the request is done
\* or failed when the call returns, on every path.
C4_CommitReachesOutcome ==
    \A w \in Watchers :
        (/\ pc[w] = "w_poll"
         /\ log[w] \in {"unsupported", "cmd_ok", "cmd_failed"}
         /\ events = MaxEvents /\ runs = 1)
            => \A i \in 1..Len(rows) :
                   rows[i].shutdown_requested.status \in {"done", "failed"}

\* C5: the power-off command is invoked at most once for one request the
\* operator wrote.
C5_PowerOffAtMostOnce == poweroffs <= 1

\* The transitions of a shutdown request.
Forward ==
    {<<"pending", "expired">>, <<"pending", "shutting_down">>,
     <<"shutting_down", "done">>, <<"shutting_down", "failed">>}

\* C6: every value the agent writes to shutdown_requested takes the value
\* the registry holds at that moment along one of the transitions.
C6_OnlyForward ==
    [][\A w \in Watchers :
          Applies(w)
              => \A i \in 1..Len(rows) :
                     <<rows[i].shutdown_requested.status,
                       rows'[i].shutdown_requested.status>> \in Forward]_vars

\* C7: no two handleShutdown calls are in flight at once.
C7_OneExecutor == Cardinality({w \in Watchers : InHandle(w)}) <= 1

\* C8: a poll that reads an unparseable shutdown_requested writes nothing,
\* invokes no power-off, and leaves the watcher asleep in its loop for one
\* poll interval, after which it fetches again.
C8_MalformedIgnored ==
    /\ [][\A w \in Watchers :
            (/\ pc[w] = "w_poll" /\ Steps(w) /\ events' = events
             /\ rows # <<>>
             /\ \A i \in 1..Len(rows) : rows[i].shutdown_requested = BadReq)
                => /\ rows' = rows
                   /\ poweroffs' = poweroffs
                   /\ data'[w] = NoData
                   /\ hs'[w] = NoCall
                   /\ pc'[w] = "w_poll"
                   /\ wake'[w] = now + ShutdownPollInterval]_vars
    /\ [](\A w \in Watchers :
            (pc[w] = "w_poll" /\ wake[w] <= now) => Runnable(w))

C8_Witness ==
    \E w \in Watchers :
        /\ log[w] = "bad"
        /\ pc[w] = "w_poll"
        /\ wake[w] = now
        /\ now >= 2 * ShutdownPollInterval
        /\ rows # <<>>
        /\ rows[1].shutdown_requested = BadReq

\* C10: the expiry branch changes no column of an existing row other than
\* shutdown_requested, which it leaves or sets to expired; it invokes no
\* power-off.
C10_ExpiryFrame ==
    [][\A w \in Watchers :
          (Steps(w) /\ (data[w] = ExpiredBody \/ data'[w] = ExpiredBody))
              => /\ poweroffs' = poweroffs
                 /\ pc'[w] # "w_exec"
                 /\ Len(rows') >= Len(rows)
                 /\ \A i \in 1..Len(rows) :
                        /\ rows'[i].status = rows[i].status
                        /\ rows'[i].last_seen = rows[i].last_seen
                        /\ rows'[i].first_online_at = rows[i].first_online_at
                        /\ rows'[i].shutdown_requested
                               \in {rows[i].shutdown_requested, Req("expired", NoTime)}]_vars

C10_Witness ==
    \E w \in Watchers :
        /\ SawExpired(hs[w])
        /\ pc[w] = "w_poll"
        /\ log[w] = "expired"
        /\ rows # <<>>
        /\ rows[1].shutdown_requested = Req("expired", NoTime)
        /\ rows[1].status = "on"

\* The request is pending early enough for the scenario's clock to cover
\* the uptime window, one poll interval and the grace delay.
PendingInTime ==
    /\ rows # <<>>
    /\ rows[1].shutdown_requested.status = "pending"
    /\ now + MinUptimeBeforeShutdown + ShutdownPollInterval + ShutdownDelay <= ScenarioTime

Settled ==
    /\ rows # <<>>
    /\ rows[1].shutdown_requested.status \in {"done", "failed"}

Recreating(t) == pc[t] \in {"p_fetch", "cd_fetch", "cd_post"} /\ data[t] # NoData

\* C11: after the row was deleted and the reporter's PATCH got 404, no step
\* in which every request is answered ends the reporter, whose error would
\* be what run() returns: the deletion alone never terminates run().
C11_DeletionSelfHeals ==
    [][(Recreating(Rep) /\ events' = events) => pc'[Rep] # "dead"]_vars

\* createDevice, called by goroutine t, returns nil in this step: run() goes
\* on to start the tasks, the watcher logs the creation, patchDevice goes on
\* to its second PATCH.
CreateOk(t) ==
    IF t = Main THEN pc'[t] = "m_wait"
    ELSE IF data[t] = NoData THEN log'[t] = "created"
    ELSE pc'[t] = "p_patch"

\* C12: a createDevice whose POST is answered 409, because another caller
\* inserted the row after this caller's lookup, returns nil to each of its
\* callers: run(), the watcher's loop and patchDevice.
C12_ConflictIsSuccess ==
    [][\A t \in Threads :
          (pc[t] = "cd_post" /\ Steps(t) /\ events' = events /\ uniq /\ rows # <<>>)
              => CreateOk(t)]_vars

\* C13: no write of the agent changes the first_online_at of a row that
\* exists: it is written when the row is created and constant afterwards.
C13_FirstOnlineAtWrittenOnce ==
    [][\A i \in 1..Len(rows) :
          i <= Len(rows') => rows'[i].first_online_at = rows[i].first_online_at]_vars

\* C14: after run() returned because a setting is missing or signIn rejected
\* the credentials, main() does not call run() again.
C14_StartupErrorNotRetried ==
    [][(pc[Main] = "m_sleep" /\ lastErr \in {"config", "auth"})
          => pc'[Main] = "m_sleep"]_vars

\* ---- the scenario of a registry that fails and is not written by others --
\* Requests fail, the row is deleted from outside; no operator writes.
AgentRetry ==
    \/ M_Start
    \/ M_Recv
    \/ M_Retry
    \/ R_Tick
    \/ \E t \in Threads : CD_Fetch(t)
    \/ \E t \in Threads : CD_Post(t)
    \/ \E t \in Threads : P_Patch(t)
    \/ \E t \in Threads : P_Fetch(t)
    \/ \E w \in Watchers : W_Poll(w)
    \/ \E w \in Watchers : W_Exec(w)
    \/ Tick

NextRetry == AgentRetry \/ ExtDelete

\* A runnable goroutine runs, and time passes when none is runnable.
SpecRetry == Init /\ [][NextRetry]_vars /\ WF_vars(AgentRetry)

\* run() has returned an error, and the model's clock and its count of
\* run() calls leave room for the next call.
RunFailed ==
    /\ pc[Main] = "m_sleep"
    /\ runs < MaxRuns
    /\ wake[Main] <= MaxTime

\* run() is past its startup and both of its tasks are running.
Restored ==
    /\ pc[Main] = "m_wait"
    /\ pc[Rep] # "dead"
    /\ pc[runs] # "dead"

\* C15: every error run() returns, from its startup or from a task, puts
\* main() to sleep for 30 s, after which main() calls run() again and does
\* nothing else; main() never exits; and the run() that succeeds after an
\* error has both tasks running.
C15_MainRetriesRun ==
    /\ [](pc[Main] \in {"m_start", "cd_fetch", "cd_post", "m_wait", "m_sleep"})
    /\ [][(pc[Main] # "m_sleep" /\ pc'[Main] = "m_sleep")
             => (lastErr' # "none" /\ wake'[Main] = now + RetrySleep)]_vars
    /\ [][(pc[Main] = "m_sleep" /\ pc'[Main] # "m_sleep")
             => (pc'[Main] = "m_start" /\ now = wake[Main] /\ runs' = runs + 1)]_vars
    /\ [][(pc[Main] # "m_wait" /\ pc'[Main] = "m_wait")
             => (pc'[Rep] = "r_tick" /\ pc'[runs] = "w_poll"
                 /\ Runnable(Rep)' /\ Runnable(runs)')]_vars
    /\ RunFailed ~> (pc[Main] = "m_start")
    /\ (RunFailed /\ events = 0 /\ rows # <<>>) ~> Restored

C15_Witness ==
    /\ Restored
    /\ runs > 1
    /\ lastErr # "none"

\* This step is goroutine t's PATCH request ending with error e.
PatchFails(t, e) ==
    /\ pc[t] = "p_patch"
    /\ Fails(e)
    /\ PatchReturns(t, Outer(t, e))

\* C16: a PATCH of the reporter that fails with a network error, a timeout
\* or a 5xx leaves the reporter waiting for its next tick, one period later.
C16_TransientKeepsReporter ==
    [][PatchFails(Rep, "transient")
          => (pc'[Rep] = "r_tick" /\ wake'[Rep] = now + StatusUpdateInterval)]_vars

\* C17: a PATCH of the reporter that ends with a 4xx other than 404, be it
\* the first PATCH of a patchDevice call or the one that follows a 404, ends
\* updateDeviceStatus, and the error is what run() receives.
C17_FatalReachesRun ==
    [][PatchFails(Rep, "fatal")
          => (pc'[Rep] = "dead" /\ errChan' = Append(errChan, "fatal"))]_vars

\* Watcher w is in its loop's own createDevice call (no patchDevice open).
LoopCreates(w) == pc[w] \in {"cd_fetch", "cd_post"} /\ data[w] = NoData

\* Watcher w sleeps one poll interval from now and then fetches.
Repolls(w) ==
    /\ pc'[w] = "w_poll"
    /\ wake'[w] = now + ShutdownPollInterval
    /\ data'[w] = NoData

\* C18: a watcher that was started is never ended, and only the reporter
\* puts an error on errChan; the watcher's failed fetch, and its createDevice
\* after an empty fetch whether it succeeds or fails, end in a sleep of one
\* poll interval after which the watcher is runnable and fetches again.
C18_WatcherNeverEnds ==
    /\ [][\A w \in Watchers : pc[w] # "dead" => pc'[w] # "dead"]_vars
    /\ [][errChan' # errChan
             => (errChan' = <<>> \/ (pc[Rep] # "dead" /\ pc'[Rep] = "dead"))]_vars
    /\ [][\A w \in Watchers :
            /\ (pc[w] = "w_poll" /\ Steps(w) /\ events' < events) => Repolls(w)
            /\ (pc[w] = "w_poll" /\ Steps(w) /\ events' = events /\ rows = <<>>)
                   => (pc'[w] = "cd_fetch" /\ data'[w] = NoData)
            /\ (LoopCreates(w) /\ Steps(w)) => (pc'[w] = "cd_post" \/ Repolls(w))
            /\ (LoopCreates(w) /\ Steps(w) /\ events' < events)
                   => (Repolls(w) /\ log'[w] = "create_failed")]_vars
    /\ [](\A w \in Watchers : (pc[w] = "w_poll" /\ wake[w] <= now) => ENABLED W_Poll(w))

C18_Witness ==
    \E w \in Watchers :
        /\ log[w] = "create_failed"
        /\ pc[w] = "w_poll"
        /\ wake[w] = now
        /\ lastErr = "none"
        /\ errChan = <<>>

\* C19: whenever a power-off command is invoked, the row exists and its
\* shutdown_requested is shutting_down: the commit PATCH has been applied.
C19_PowerOffAfterCommit ==
    [][poweroffs' = poweroffs + 1
          => (rows # <<>>
              /\ \A i \in 1..Len(rows) :
                     rows[i].shutdown_requested.status = "shutting_down")]_vars

\* C20: on an OS other than windows, linux and darwin, the step that follows
\* the commit PATCH and the grace delay invokes no command and writes
\* nothing, and handleShutdown returns to the watcher's loop, which sleeps
\* one poll interval and polls again; no command is ever invoked on such a
\* host, and between the return and the next poll the watcher has no PATCH
\* open.
C20_UnsupportedOsAborts ==
    /\ [][\A w \in Watchers :
            (goos = "other" /\ pc[w] = "w_exec" /\ Steps(w))
                => /\ poweroffs' = poweroffs
                   /\ rows' = rows
                   /\ Repolls(w)
                   /\ log'[w] = "unsupported"]_vars
    /\ [](goos = "other" => poweroffs = 0)
    /\ [](\A w \in Watchers :
            log[w] = "unsupported" => (pc[w] = "w_poll" /\ data[w] = NoData))
    /\ [](\A w \in Watchers : (pc[w] = "w_poll" /\ wake[w] <= now) => Runnable(w))

C20_Witness ==
    \E w \in Watchers :
        /\ goos = "other"
        /\ log[w] = "unsupported"
        /\ pc[w] = "w_poll"
        /\ wake[w] = now + ShutdownPollInterval
        /\ rows # <<>>
        /\ rows[1].shutdown_requested = Req("shutting_down", NoTime)
        /\ rows[1].status = "off"

\* C21: the PATCH that patchDevice issues after a 404 is the last request of
\* the call: whatever it is answered, the call neither re-creates again nor
\* PATCHes a third time.
C21_AtMostTwoPatches ==
    [][\A t \in Threads :
          (pc[t] = "p_patch" /\ nested[t]) => pc'[t] # "p_fetch"]_vars

C23_LeftoverWaitsForUptime ==
    \A w \in Watchers :
        (/\ events = MaxEvents
         /\ \/ Kind(data[w]) = "shutting_down"
            \/ pc[w] = "w_exec"
            \/ poweroffs > 0)
            => now >= MinUptimeBeforeShutdown

\* C24: no step of the reporter, in its PATCH, in the re-create after a 404
\* or in the PATCH that follows it, changes the shutdown_requested of a row
\* that exists or removes a row.
C24_ReporterKeepsRequest ==
    [][Steps(Rep)
          => (Len(rows') >= Len(rows)
              /\ \A i \in 1..Len(rows) :
                     rows'[i].shutdown_requested = rows[i].shutdown_requested)]_vars

\* The reporter's PATCH has been applied to a row with a pending request.
C24_Witness ==
    /\ pc[Rep] = "r_tick"
    /\ wake[Rep] = now + StatusUpdateInterval
    /\ rows # <<>>
    /\ rows[1].status = "on"
    /\ rows[1].last_seen = At(now)
    /\ rows[1].shutdown_requested.status = "pending"

====
